---------------------------- MODULE Spec2Model ----------------------------
(***************************************************************************)
(* Model of the waste-segregation session controller (src/App.tsx) and of  *)
(* the classification client (services/wasteClassifier).                   *)
(*                                                                         *)
(* The App component is a state machine driven by the UI framework: every  *)
(* handler (a click, a promise continuation, an interval callback) applies *)
(* its state updates as one batch, the component re-renders, and the       *)
(* effects whose dependencies changed run their cleanup and then their     *)
(* body.  One action of the model is one such handler together with the    *)
(* commit (render + effects) it causes.  Closures are modelled by the      *)
(* values they capture: an interval callback captures the                  *)
(* classificationError of the render that created startClassification.     *)
(***************************************************************************)
EXTENDS Integers, Sequences, FiniteSets, TLC

\* ------------------------------------------------------------- bounds
\* number of media streams getUserMedia hands out in one behaviour
MaxStreams == 3
\* number of getUserMedia requests pending at once
MaxPending == 2
\* number of classification calls in flight at once
MaxInflight == 2
\* number of tracks of one media stream
MaxTracks == 2

\* ------------------------------------------------------------- values
\* null / no object
NoStream == 0
NoTimer == 0
Null == "null"

\* enum WasteType
WasteType == {"PLASTIC", "NON_PLASTIC", "UNKNOWN"}

\* the messages of startCamera's catch branch
GenericCameraMsg == "An unexpected error occurred while accessing the camera. Please try again."
PermissionDeniedMsg == "Camera access denied. Please enable camera permissions for this site in your browser settings."
NoCameraMsg == "No camera found. Please ensure a camera is connected and enabled."
\* the message of the interval callback's catch branch
ClassificationFailedMsg == "Classification failed. Please check your network connection."

\* what getUserMedia can reject with
MediaErrors ==
    { [isDOMException |-> TRUE,  name |-> "NotAllowedError"],
      [isDOMException |-> TRUE,  name |-> "NotFoundError"],
      [isDOMException |-> TRUE,  name |-> "NotReadableError"],
      [isDOMException |-> FALSE, name |-> "NotAllowedError"],
      [isDOMException |-> FALSE, name |-> "TypeError"] }

\* a slip: the name is tested without the instanceof DOMException test
CameraErrorMessage_NameOnly(err) ==
    IF err.name = "NotAllowedError" THEN PermissionDeniedMsg
    ELSE IF err.name = "NotFoundError" THEN NoCameraMsg
    ELSE GenericCameraMsg

\* the catch branch of startCamera: the message for a rejection reason
CameraErrorMessage(err) ==
    IF err.isDOMException
    THEN IF err.name = "NotAllowedError" THEN PermissionDeniedMsg
         ELSE IF err.name = "NotFoundError" THEN NoCameraMsg
         ELSE GenericCameraMsg
    ELSE GenericCameraMsg

\* ---------------------------------------------- classification client
\* confidence is kept in hundredths: 75 is 0.75
ConfidenceThreshold == 75

\* the values the "confidence" member of the parsed response can have
Confidences ==
    { [kind |-> "number", value |-> v] : v \in {0, 74, 75, 100} }
    \cup { [kind |-> "missing", value |-> 0], [kind |-> "NaN", value |-> 0] }

\* the values the "classification" member of the parsed response can have
Labels == {"PLASTIC", "NON_PLASTIC", "UNKNOWN", "GLASS", "missing"}

\* what the remote call can come back with
Responses ==
    { [kind |-> "transportError", classification |-> "missing",
       confidence |-> [kind |-> "missing", value |-> 0]],
      [kind |-> "unparseable", classification |-> "missing",
       confidence |-> [kind |-> "missing", value |-> 0]] }
    \cup { [kind |-> "json", classification |-> l, confidence |-> c] :
              l \in Labels, c \in Confidences }

\* a slip: the comparison is turned around
BelowThreshold_Inverted(c) == c.kind = "number" /\ c.value > ConfidenceThreshold

\* a slip: the threshold itself is rejected too
BelowThreshold_Inclusive(c) == c.kind = "number" /\ c.value <= ConfidenceThreshold

\* confidence < 0.75 as the language evaluates it: a missing member
\* (undefined) and a non-numeric value convert to NaN, and NaN < x is false
BelowThreshold(c) == c.kind = "number" /\ c.value < ConfidenceThreshold

\* classifyWaste after the readiness guard: "error" when the call throws,
\* otherwise the WasteType returned
classifyWaste(response) ==
    IF response.kind \in {"transportError", "unparseable"} THEN "error"
    ELSE IF BelowThreshold(response.confidence) THEN "UNKNOWN"
    ELSE IF response.classification = "PLASTIC" THEN "PLASTIC"
    ELSE IF response.classification = "NON_PLASTIC" THEN "NON_PLASTIC"
    ELSE "UNKNOWN"

\* the controller sees a response only through what classifyWaste makes of
\* it: one response for each outcome stands for the others when a call of
\* the polling loop completes
Outcomes == { classifyWaste(r) : r \in Responses }
OutcomeResponses ==
    { CHOOSE r \in Responses : classifyWaste(r) = o : o \in Outcomes }

\* ------------------------------------------------------------- state
VARIABLES
    mounted,                    \* the App component is mounted
    isCameraActive,             \* useState: isCameraActive
    stream,                     \* useState: stream (a stream id or NoStream)
    classification,             \* useState: classification
    error,                      \* useState: error (camera error)
    classificationError,        \* useState: classificationError
    classificationIntervalRef,  \* useRef: the timer id held, or NoTimer
    timers,                     \* the intervals scheduled in the browser
    inflight,                   \* classification calls awaiting their response
    pendingStarts,              \* getUserMedia requests awaiting the user
    acquired,                   \* number of streams getUserMedia has handed out
    liveTracks,                 \* the <<stream, track>> pairs not yet stopped
    awaitingFirstTick,          \* a session has started and has not ticked yet
    lastOp,                     \* the handler that ran last
    timersAtRelease,            \* the timers that were scheduled when the last
                                \* stop or unmount stopped the stream's tracks
    overtaken,                  \* how many calls at the head of inflight were
                                \* issued before a call already applied
    lastOutcome,                \* the outcome of the call that completed last
                                \* since classification was last reset
    call                        \* one run of the interval callback and of
                                \* classifyWaste, traced statement by statement

vars == << mounted, isCameraActive, stream, classification, error,
           classificationError, classificationIntervalRef, timers, inflight,
           pendingStarts, acquired, liveTracks, awaitingFirstTick, lastOp,
           timersAtRelease, overtaken, lastOutcome, call >>

\* the component state of the current render
State ==
    [ isCameraActive |-> isCameraActive, stream |-> stream,
      classification |-> classification, error |-> error,
      classificationError |-> classificationError ]

\* the timer bookkeeping: the browser's intervals and the ref
Timing == [ timers |-> timers, ref |-> classificationIntervalRef ]

\* videoRef.current is the video element exactly while WebcamCapture is rendered
videoRefAttached == mounted /\ isCameraActive /\ stream # NoStream

\* the tracks of stream s
TracksOf(s, live) == { p \in live : p[1] = s }

\* ------------------------------------------------------- the callbacks
\* a slip: only the first track of the stream is stopped
StopTracks_FirstTrackOnly(s, live) ==
    IF s # NoStream THEN live \ { <<s, 1>> } ELSE live

\* stream.getTracks().forEach(track => track.stop()), guarded by if (stream)
StopTracks(s, live) ==
    IF s # NoStream THEN live \ TracksOf(s, live) ELSE live

\* a slip: the ref is reset without clearInterval
stopClassification_KeepsInterval(tm) ==
    [ timers |-> tm.timers, ref |-> NoTimer ]

\* stopClassification
stopClassification(tm) ==
    IF tm.ref # NoTimer
    THEN [ timers |-> { t \in tm.timers : t.id # tm.ref }, ref |-> NoTimer ]
    ELSE tm

\* setInterval: a fresh timer id
FreshTimerId(ts) ==
    CHOOSE n \in 1..(Cardinality(ts) + 1) : \A t \in ts : t.id # n

\* startClassification; closureErr is the classificationError its render saw
startClassification(tm, closureErr) ==
    LET stopped == stopClassification(tm)
        id == FreshTimerId(stopped.timers)
    IN [ timers |-> stopped.timers \cup { [id |-> id, closureErr |-> closureErr] },
         ref |-> id ]

\* a slip: the result is not stored
TryUpdates_DropsResult(s, result, closureErr) ==
    IF closureErr # Null THEN [s EXCEPT !.classificationError = Null] ELSE s

\* the success path of the interval callback
TryUpdates(s, result, closureErr) ==
    LET s1 == [s EXCEPT !.classification = result]
    IN IF closureErr # Null THEN [s1 EXCEPT !.classificationError = Null] ELSE s1

\* a slip: a failed tick also ends the session
CatchUpdates_EndsSession(s) ==
    [s EXCEPT !.classificationError = ClassificationFailedMsg,
              !.classification = "UNKNOWN", !.isCameraActive = FALSE]

\* the catch branch of the interval callback
CatchUpdates(s) ==
    [s EXCEPT !.classificationError = ClassificationFailedMsg,
              !.classification = "UNKNOWN"]

\* the synchronous part of startCamera
StartCameraResets(s) ==
    [s EXCEPT !.error = Null, !.classificationError = Null,
              !.classification = "UNKNOWN"]

\* startCamera after getUserMedia resolved with mediaStream
StartCameraSuccess(s, mediaStream) ==
    [s EXCEPT !.stream = mediaStream, !.isCameraActive = TRUE]

\* startCamera after getUserMedia rejected with err
StartCameraFailure(s, err) ==
    [s EXCEPT !.error = CameraErrorMessage(err), !.isCameraActive = FALSE]

\* a slip: setIsCameraActive(false) is forgotten
StopCameraUpdates_KeepsActive(s) ==
    [s EXCEPT !.stream = NoStream,
              !.classification = "UNKNOWN", !.classificationError = Null]

\* the state updates of stopCamera
StopCameraUpdates(s) ==
    [s EXCEPT !.stream = NoStream, !.isCameraActive = FALSE,
              !.classification = "UNKNOWN", !.classificationError = Null]

\* a slip: the tracks are stopped before the polling loop is halted
StopCameraTearDown_TracksFirst(tm, s, live) ==
    [ tm |-> stopClassification(tm),
      live |-> StopTracks(s, live),
      scheduledAtRelease |-> IF TracksOf(s, live) # {} THEN tm.timers ELSE {} ]

\* the first statements of stopCamera in their order: stopClassification(),
\* then the tracks of the held stream are stopped; scheduledAtRelease is
\* the set of timers still scheduled while the tracks are being stopped
StopCameraTearDown(tm, s, live) ==
    LET tm1 == stopClassification(tm)
    IN [ tm |-> tm1,
         live |-> StopTracks(s, live),
         scheduledAtRelease |-> IF TracksOf(s, live) # {} THEN tm1.timers ELSE {} ]

\* the cleanups on unmount in the order the effects are declared: the
\* polling effect's cleanup, then the stream effect's cleanup
UnmountCleanups(tm, s, live) ==
    LET tm1 == stopClassification(tm)
    IN [ tm |-> tm1,
         live |-> StopTracks(s, live),
         scheduledAtRelease |-> IF TracksOf(s, live) # {} THEN tm1.timers ELSE {} ]

\* --------------------------------------------------------- the effects
\* a slip: isCameraActive is left out of the dependency list
PollingEffect_MissingActiveDep(old, new, tm) ==
    IF old.classificationError # new.classificationError
    THEN LET cleaned == stopClassification(tm)
         IN IF new.isCameraActive
            THEN startClassification(cleaned, new.classificationError)
            ELSE stopClassification(cleaned)
    ELSE tm

\* a slip: the body restarts the loop only when the session has just begun
PollingEffect_NoRestart(old, new, tm) ==
    IF old.isCameraActive # new.isCameraActive
       \/ old.classificationError # new.classificationError
    THEN LET cleaned == stopClassification(tm)
         IN IF new.isCameraActive /\ ~old.isCameraActive
            THEN startClassification(cleaned, new.classificationError)
            ELSE stopClassification(cleaned)
    ELSE tm

\* useEffect(..., [isCameraActive, startClassification, stopClassification]):
\* startClassification is a new function exactly when classificationError
\* changed; a changed dependency runs the cleanup and then the body
PollingEffect(old, new, tm) ==
    IF old.isCameraActive # new.isCameraActive
       \/ old.classificationError # new.classificationError
    THEN LET cleaned == stopClassification(tm)
         IN IF new.isCameraActive
            THEN startClassification(cleaned, new.classificationError)
            ELSE stopClassification(cleaned)
    ELSE tm

\* a slip: the effect has no cleanup
StreamEffect_NoCleanup(old, new, live) == live

\* useEffect(..., [stream]): the cleanup stops the tracks of the stream its
\* render saw
StreamEffect(old, new, live) ==
    IF old.stream # new.stream THEN StopTracks(old.stream, live) ELSE live

\* the commit of a batch of state updates: the new state is rendered and the
\* effects run; tm and live are the timers and tracks as the handler left them
Commit(new, tm, live) ==
    /\ isCameraActive' = new.isCameraActive
    /\ stream' = new.stream
    /\ classification' = new.classification
    /\ error' = new.error
    /\ classificationError' = new.classificationError
    /\ LET tm2 == PollingEffect(State, new, tm)
       IN /\ timers' = tm2.timers
          /\ classificationIntervalRef' = tm2.ref
    /\ liveTracks' = StreamEffect(State, new, live)

\* ----------------------------------------------------------------- Init
\* no run of the callback is being traced
NoCall ==
    [ pc |-> "idle", fromTick |-> FALSE, video |-> "absent",
      response |-> [kind |-> "transportError", classification |-> "missing",
                    confidence |-> [kind |-> "missing", value |-> 0]],
      closureErr |-> Null, captured |-> FALSE, requested |-> FALSE,
      outcome |-> "pending", result |-> "none" ]

Init ==
    /\ mounted = TRUE
    /\ isCameraActive = FALSE
    /\ stream = NoStream
    /\ classification = "UNKNOWN"
    /\ error = Null
    /\ classificationError = Null
    /\ classificationIntervalRef = NoTimer
    /\ timers = {}
    /\ inflight = << >>
    /\ pendingStarts = 0
    /\ acquired = 0
    /\ liveTracks = {}
    /\ awaitingFirstTick = FALSE
    /\ lastOp = "init"
    /\ timersAtRelease = {}
    /\ overtaken = 0
    /\ lastOutcome = "none"
    /\ call = NoCall

\* -------------------------------------------------------------- actions
\* the button while it reads "Start Camera": startCamera up to its await
startCamera ==
    /\ mounted
    /\ ~isCameraActive
    /\ pendingStarts < MaxPending
    /\ Commit(StartCameraResets(State), Timing, liveTracks)
    /\ pendingStarts' = pendingStarts + 1
    /\ awaitingFirstTick' = FALSE
    /\ lastOp' = "startCamera"
    /\ lastOutcome' = "none"
    /\ UNCHANGED << mounted, inflight, acquired, timersAtRelease, overtaken, call >>

\* getUserMedia resolves with a new stream of n live tracks
getUserMediaResolve(n) ==
    /\ pendingStarts > 0
    /\ acquired < MaxStreams
    /\ LET mediaStream == acquired + 1
           live == liveTracks \cup { <<mediaStream, t>> : t \in 1..n }
       IN /\ acquired' = mediaStream
          /\ IF mounted
             THEN /\ Commit(StartCameraSuccess(State, mediaStream), Timing, live)
                  /\ awaitingFirstTick' = TRUE
             ELSE /\ liveTracks' = live
                  /\ UNCHANGED << isCameraActive, stream, classification, error,
                                  classificationError, classificationIntervalRef,
                                  timers, awaitingFirstTick >>
    /\ pendingStarts' = pendingStarts - 1
    /\ lastOp' = "getUserMediaResolve"
    /\ UNCHANGED << mounted, inflight, timersAtRelease, overtaken, lastOutcome, call >>

\* getUserMedia rejects with err
getUserMediaReject(err) ==
    /\ pendingStarts > 0
    /\ IF mounted
       THEN /\ Commit(StartCameraFailure(State, err), Timing, liveTracks)
            /\ awaitingFirstTick' = FALSE
       ELSE UNCHANGED << isCameraActive, stream, classification, error,
                         classificationError, classificationIntervalRef,
                         timers, liveTracks, awaitingFirstTick >>
    /\ pendingStarts' = pendingStarts - 1
    /\ lastOp' = "getUserMediaReject"
    /\ UNCHANGED << mounted, inflight, acquired, timersAtRelease, overtaken,
                    lastOutcome, call >>

\* the button while it reads "Stop Camera"
stopCamera ==
    /\ mounted
    /\ isCameraActive
    /\ LET td == StopCameraTearDown(Timing, stream, liveTracks)
       IN /\ Commit(StopCameraUpdates(State), td.tm, td.live)
          /\ timersAtRelease' = td.scheduledAtRelease
    /\ awaitingFirstTick' = FALSE
    /\ lastOp' = "stopCamera"
    /\ lastOutcome' = "none"
    /\ UNCHANGED << mounted, inflight, pendingStarts, acquired, overtaken, call >>

\* a slip that is none: a busy flag skips the tick while a call is outstanding
Tick_SkipsWhileBusy(t, ready) ==
    /\ t \in timers
    /\ IF ~videoRefAttached
       THEN UNCHANGED << isCameraActive, stream, classification, error,
                         classificationError, classificationIntervalRef,
                         timers, liveTracks, inflight, overtaken, lastOutcome >>
       ELSE IF ready
       THEN /\ Len(inflight) = 0
            /\ inflight' = Append(inflight, [closureErr |-> t.closureErr])
            /\ UNCHANGED << isCameraActive, stream, classification, error,
                            classificationError, classificationIntervalRef,
                            timers, liveTracks, overtaken, lastOutcome >>
       ELSE /\ Commit(TryUpdates(State, "UNKNOWN", t.closureErr), Timing, liveTracks)
            /\ overtaken' = Len(inflight)
            /\ lastOutcome' = "UNKNOWN"
            /\ UNCHANGED inflight
    /\ awaitingFirstTick' = FALSE
    /\ lastOp' = "tick"
    /\ UNCHANGED << mounted, pendingStarts, acquired, timersAtRelease, call >>

\* the interval callback of timer t fires.  ready: the video element reports
\* non-zero dimensions, so classifyWaste sends a request; otherwise it
\* returns UNKNOWN at once and the callback continues on its success path
Tick(t, ready) ==
    /\ t \in timers
    /\ IF ~videoRefAttached
       THEN UNCHANGED << isCameraActive, stream, classification, error,
                         classificationError, classificationIntervalRef,
                         timers, liveTracks, inflight, overtaken, lastOutcome >>
       ELSE IF ready
       THEN /\ Len(inflight) < MaxInflight
            /\ inflight' = Append(inflight, [closureErr |-> t.closureErr])
            /\ UNCHANGED << isCameraActive, stream, classification, error,
                            classificationError, classificationIntervalRef,
                            timers, liveTracks, overtaken, lastOutcome >>
       ELSE /\ Commit(TryUpdates(State, "UNKNOWN", t.closureErr), Timing, liveTracks)
            /\ overtaken' = Len(inflight)
            /\ lastOutcome' = "UNKNOWN"
            /\ UNCHANGED inflight
    /\ awaitingFirstTick' = FALSE
    /\ lastOp' = "tick"
    /\ UNCHANGED << mounted, pendingStarts, acquired, timersAtRelease, call >>

\* the sequence s without its element i
RemoveAt(s, i) == SubSeq(s, 1, i - 1) \o SubSeq(s, i + 1, Len(s))

\* the calls issued before one already applied, once inflight[i] has settled:
\* they are the head of inflight, which is kept in the order of issue
OvertakenAfter(i, applied) ==
    IF i <= overtaken THEN overtaken - 1
    ELSE IF applied THEN i - 1 ELSE overtaken

\* the call inflight[i] comes back with a response classifyWaste returns on
classifyResolve(i, response) ==
    /\ i \in 1..Len(inflight)
    /\ classifyWaste(response) # "error"
    /\ IF mounted
       THEN Commit(TryUpdates(State, classifyWaste(response), inflight[i].closureErr),
                   Timing, liveTracks)
       ELSE UNCHANGED << isCameraActive, stream, classification, error,
                         classificationError, classificationIntervalRef,
                         timers, liveTracks >>
    /\ inflight' = RemoveAt(inflight, i)
    /\ overtaken' = OvertakenAfter(i, mounted)
    /\ lastOutcome' = IF mounted THEN classifyWaste(response) ELSE lastOutcome
    /\ lastOp' = "classifyResolve"
    /\ UNCHANGED << mounted, pendingStarts, acquired, awaitingFirstTick,
                    timersAtRelease, call >>

\* the call inflight[i] comes back with a response classifyWaste throws on
classifyReject(i, response) ==
    /\ i \in 1..Len(inflight)
    /\ classifyWaste(response) = "error"
    /\ IF mounted
       THEN Commit(CatchUpdates(State), Timing, liveTracks)
       ELSE UNCHANGED << isCameraActive, stream, classification, error,
                         classificationError, classificationIntervalRef,
                         timers, liveTracks >>
    /\ inflight' = RemoveAt(inflight, i)
    /\ overtaken' = OvertakenAfter(i, mounted)
    /\ lastOutcome' = IF mounted THEN "UNKNOWN" ELSE lastOutcome
    /\ lastOp' = "classifyReject"
    /\ UNCHANGED << mounted, pendingStarts, acquired, awaitingFirstTick,
                    timersAtRelease, call >>

\* the hosting page tears the component down: the cleanups of both effects run
Unmount ==
    /\ mounted
    /\ mounted' = FALSE
    /\ LET td == UnmountCleanups(Timing, stream, liveTracks)
       IN /\ timers' = td.tm.timers
          /\ classificationIntervalRef' = td.tm.ref
          /\ liveTracks' = td.live
          /\ timersAtRelease' = td.scheduledAtRelease
    /\ awaitingFirstTick' = FALSE
    /\ lastOp' = "unmount"
    /\ UNCHANGED << isCameraActive, stream, classification, error,
                    classificationError, inflight, pendingStarts, acquired,
                    overtaken, lastOutcome, call >>

TickAny == \E t \in timers, ready \in BOOLEAN : Tick(t, ready)

Next ==
    \/ startCamera
    \/ \E n \in 1..MaxTracks : getUserMediaResolve(n)
    \/ \E err \in MediaErrors : getUserMediaReject(err)
    \/ stopCamera
    \/ TickAny
    \/ \E i \in 1..MaxInflight, r \in OutcomeResponses : classifyResolve(i, r)
    \/ \E i \in 1..MaxInflight, r \in OutcomeResponses : classifyReject(i, r)
    \/ Unmount

Spec == Init /\ [][Next]_vars

\* the browser fires a scheduled interval again and again
FairSpec == Spec /\ WF_vars(TickAny)

\* ------------------------------------- one run of the interval callback
\* what the video element handed to classifyWaste can be: no element, an
\* element not yet streaming (no intrinsic width or height), a playing
\* element, and a playing element whose canvas gives no 2D context
Videos == {"absent", "zeroWidth", "zeroHeight", "ready", "noContext"}

\* a slip: only the width is tested
VideoNotReady_WidthOnly(video) == video \in {"absent", "zeroWidth"}

\* the guard of classifyWaste:
\* !videoElement || videoElement.videoWidth === 0 || videoElement.videoHeight === 0
VideoNotReady(video) == video \in {"absent", "zeroWidth", "zeroHeight"}

\* the runs of the callback that can begin: the callback calls classifyWaste
\* only with the element videoRef holds; a run that settles within the tick
\* sees the classificationError its timer captured, which is the current one
Calls ==
    { c \in [ pc : {"guard"}, fromTick : BOOLEAN, video : Videos,
              response : Responses, closureErr : {Null, ClassificationFailedMsg},
              captured : {FALSE}, requested : {FALSE},
              outcome : {"pending"}, result : {"none"} ] :
        /\ c.video = "absent" => ~c.fromTick
        /\ c.video \notin {"ready", "noContext"} =>
              c.response = NoCall.response }

\* an Active session of the mounted component, with one run about to begin
ClientInit ==
    /\ mounted = TRUE
    /\ isCameraActive = TRUE
    /\ stream = 1
    /\ classification \in WasteType
    /\ error = Null
    /\ classificationError \in {Null, ClassificationFailedMsg}
    /\ classificationIntervalRef = 1
    /\ timers = { [id |-> 1, closureErr |-> classificationError] }
    /\ inflight = << >>
    /\ pendingStarts = 0
    /\ acquired = 1
    /\ liveTracks = { <<1, 1>> }
    /\ awaitingFirstTick = FALSE
    /\ lastOp = "tick"
    /\ timersAtRelease = {}
    /\ overtaken = 0
    /\ lastOutcome = "none"
    /\ call \in Calls
    /\ call.video # "ready" => call.closureErr = classificationError

\* what a step of classifyWaste leaves alone
ControllerUnchanged ==
    UNCHANGED << mounted, isCameraActive, stream, classification, error,
                 classificationError, classificationIntervalRef, timers,
                 inflight, pendingStarts, acquired, liveTracks,
                 awaitingFirstTick, lastOp, timersAtRelease, overtaken,
                 lastOutcome >>

\* classifyWaste: the readiness guard returns UNKNOWN at once
cwGuard ==
    /\ call.pc = "guard"
    /\ call' = IF VideoNotReady(call.video)
               THEN [call EXCEPT !.pc = "settled", !.outcome = "returned",
                                 !.result = "UNKNOWN"]
               ELSE [call EXCEPT !.pc = "capture"]
    /\ ControllerUnchanged

\* classifyWaste: captureFrame, which throws without a 2D context
cwCaptureFrame ==
    /\ call.pc = "capture"
    /\ call' = IF call.video = "noContext"
               THEN [call EXCEPT !.pc = "settled", !.outcome = "thrown"]
               ELSE [call EXCEPT !.pc = "request", !.captured = TRUE]
    /\ ControllerUnchanged

\* classifyWaste: the request is sent to the remote classifier
cwGenerateContent ==
    /\ call.pc = "request"
    /\ call' = [call EXCEPT !.pc = "respond", !.requested = TRUE]
    /\ ControllerUnchanged

\* classifyWaste: the response arrives, is parsed and decided on
cwRespond ==
    /\ call.pc = "respond"
    /\ LET r == classifyWaste(call.response)
       IN call' = IF r = "error"
                  THEN [call EXCEPT !.pc = "settled", !.outcome = "thrown"]
                  ELSE [call EXCEPT !.pc = "settled", !.outcome = "returned",
                                    !.result = r]
    /\ ControllerUnchanged

\* the interval callback continues after its await: the try path when
\* classifyWaste returned, the catch branch when it threw
cbSettle ==
    /\ call.pc = "settled"
    /\ call.fromTick
    /\ IF call.outcome = "returned"
       THEN Commit(TryUpdates(State, call.result, call.closureErr), Timing, liveTracks)
       ELSE Commit(CatchUpdates(State), Timing, liveTracks)
    /\ call' = [call EXCEPT !.pc = "applied"]
    /\ lastOutcome' = IF call.outcome = "returned" THEN call.result ELSE "UNKNOWN"
    /\ UNCHANGED << mounted, inflight, pendingStarts, acquired,
                    awaitingFirstTick, lastOp, timersAtRelease, overtaken >>

ClientNext ==
    \/ cwGuard
    \/ cwCaptureFrame
    \/ cwGenerateContent
    \/ cwRespond
    \/ cbSettle

ClientSpec == ClientInit /\ [][ClientNext]_vars

TypeOK ==
    /\ mounted \in BOOLEAN
    /\ isCameraActive \in BOOLEAN
    /\ stream \in 0..MaxStreams
    /\ classification \in WasteType
    /\ error \in {Null, GenericCameraMsg, PermissionDeniedMsg, NoCameraMsg}
    /\ classificationError \in {Null, ClassificationFailedMsg}
    /\ Len(inflight) <= MaxInflight
    /\ pendingStarts \in 0..MaxPending
    /\ acquired \in 0..MaxStreams
    /\ overtaken \in 0..Len(inflight)

\* ------------------------------------------------------------- claims
\* some classification call comes back and the callback's success path runs
\* (the handler's mark on lastOp is tested first: it is the cheap conjunct)
SomeClassifyResolve ==
    /\ lastOp' = "classifyResolve"
    /\ \E i \in 1..MaxInflight, r \in OutcomeResponses : classifyResolve(i, r)

\* some classification call comes back and the callback's catch branch runs
SomeClassifyReject ==
    /\ lastOp' = "classifyReject"
    /\ \E i \in 1..MaxInflight, r \in OutcomeResponses : classifyReject(i, r)

\* C1: after stopCamera no polling timer is scheduled, every track of the
\* stream that was held is stopped, the stream reference is null,
\* isCameraActive is false, classification is UNKNOWN and the transient
\* classification error is null.
C1_StopCameraPost ==
    [][ stopCamera =>
          /\ timers' = {}
          /\ classificationIntervalRef' = NoTimer
          /\ stream # NoStream
          /\ TracksOf(stream, liveTracks') = {}
          /\ stream' = NoStream
          /\ ~isCameraActive'
          /\ classification' = "UNKNOWN"
          /\ classificationError' = Null ]_vars

\* stopCamera has run on a session that had a result on display and a call
\* still in flight
C1_Witness ==
    /\ lastOp = "stopCamera"
    /\ Len(inflight) > 0
    /\ acquired > 0
    /\ stream = NoStream

\* C2: whenever the session is Idle the classification is UNKNOWN; a call
\* that completes after stopCamera changes neither the classification nor
\* the transient classification error.
C2_IdleIsUnknown ==
    ~isCameraActive => classification = "UNKNOWN"

\* C3: when the first polling tick of a new session fires, the
\* classification is UNKNOWN and both error slots are null.
C3_FirstTickSeesReset ==
    [][ (TickAny /\ awaitingFirstTick) =>
          /\ classification = "UNKNOWN"
          /\ error = Null
          /\ classificationError = Null ]_vars

\* C4: every time a classification call completes successfully and its
\* result is applied, the transient classification error is null afterwards.
C4_SuccessClearsError ==
    [][ (mounted /\ SomeClassifyResolve) => classificationError' = Null ]_vars

\* C5: at most one polling timer is scheduled in every reachable state, and
\* none remains once a stop has run.
C5_AtMostOneTimer ==
    /\ Cardinality(timers) <= 1
    /\ \A t \in timers : t.id = classificationIntervalRef
    /\ lastOp = "stopCamera" => timers = {}

\* the effect re-ran because the transient error changed: the one timer
\* scheduled is the re-created one
C5_Witness ==
    /\ isCameraActive
    /\ Cardinality(timers) = 1
    /\ \E t \in timers : t.closureErr = ClassificationFailedMsg
    /\ acquired >= 2

\* C6: in every committed state of the mounted component a polling timer
\* is scheduled if and only if isCameraActive is true.
C6_TimerIffActive ==
    mounted => (timers # {} <=> isCameraActive)

\* a pending start attempt failed while a session was active: the session
\* and its timer ended together
C6_Witness ==
    /\ mounted
    /\ lastOp = "getUserMediaReject"
    /\ stream # NoStream
    /\ ~isCameraActive
    /\ timers = {}

\* C7: whenever the session is not active the controller holds no media
\* stream and no acquired stream has a live track, also after a failed start
\* attempt that was pending beside one that succeeded.
C7_IdleHoldsNoStream ==
    (mounted /\ ~isCameraActive) => (stream = NoStream /\ liveTracks = {})

\* C8: once the component is unmounted no polling timer is scheduled and no
\* acquired media stream has a live track.
C8_UnmountedHoldsNothing ==
    ~mounted => (timers = {} /\ liveTracks = {})

\* C9: a classification failure changes only the transient classification
\* error (set to the failure message) and the classification (forced to
\* UNKNOWN); isCameraActive, the held stream, its tracks and the camera
\* error are unchanged.
C9_FailureFrame ==
    [][ SomeClassifyReject =>
          /\ UNCHANGED << isCameraActive, stream, liveTracks, error, mounted >>
          /\ mounted => /\ classificationError' = ClassificationFailedMsg
                        /\ classification' = "UNKNOWN" ]_vars

\* a call failed while the session was active with a camera error on display
C9_Witness ==
    /\ lastOp = "classifyReject"
    /\ mounted
    /\ isCameraActive
    /\ liveTracks # {}
    /\ error # Null
    /\ classificationError = ClassificationFailedMsg

\* the session is active right after a classification failure
FailedWhileActive == lastOp = "classifyReject" /\ mounted /\ isCameraActive

\* C10: while the session stays Active a classification failure never
\* leaves it without a scheduled timer, and a further tick eventually fires
\* unless the session ends first.
C10_LoopSurvivesFailure ==
    /\ [](FailedWhileActive => timers # {})
    /\ FailedWhileActive ~> (lastOp = "tick" \/ ~isCameraActive \/ ~mounted)

\* a tick fired on the timer that was re-created after a failure
C10_Witness ==
    /\ lastOp = "tick"
    /\ mounted
    /\ isCameraActive
    /\ classificationError = ClassificationFailedMsg
    /\ \E k \in 1..Len(inflight) : inflight[k].closureErr = ClassificationFailedMsg

\* the traced run went past the readiness guard and has settled
SettledPastGuard == call.video = "ready" /\ call.outcome # "pending"

\* the response carries a numeric confidence
NumericConfidence == call.response.kind = "json" /\ call.response.confidence.kind = "number"

\* C11: for every response whose confidence is below 0.75 classifyWaste
\* returns UNKNOWN, whatever the labelled classification.
C11_LowConfidenceIsUnknown ==
    ( /\ SettledPastGuard
      /\ NumericConfidence
      /\ call.response.confidence.value < 75 )
    => (call.outcome = "returned" /\ call.result = "UNKNOWN")

\* a PLASTIC label at confidence 0.74 came back as UNKNOWN
C11_Witness ==
    /\ call.outcome = "returned"
    /\ call.requested
    /\ call.response.classification = "PLASTIC"
    /\ call.response.confidence = [kind |-> "number", value |-> 74]
    /\ call.result = "UNKNOWN"

\* C12: for every response whose confidence is at least 0.75 classifyWaste
\* returns the label when it is PLASTIC or NON_PLASTIC and UNKNOWN for
\* every other label.
C12_HighConfidencePassesLabel ==
    ( /\ SettledPastGuard
      /\ NumericConfidence
      /\ call.response.confidence.value >= 75 )
    => /\ call.outcome = "returned"
       /\ call.result = IF call.response.classification \in {"PLASTIC", "NON_PLASTIC"}
                        THEN call.response.classification
                        ELSE "UNKNOWN"

\* a NON_PLASTIC label at exactly 0.75 came back as NON_PLASTIC and was
\* put on display
C12_Witness ==
    /\ call.pc = "applied"
    /\ call.response.classification = "NON_PLASTIC"
    /\ call.response.confidence = [kind |-> "number", value |-> 75]
    /\ call.result = "NON_PLASTIC"
    /\ classification = "NON_PLASTIC"

\* the call fails: the transport fails, the body does not parse, or the
\* parsed response violates the schema
FailedCall ==
    \/ call.response.kind \in {"transportError", "unparseable"}
    \/ call.response.classification = "missing"
    \/ call.response.confidence.kind \in {"missing", "NaN"}

\* C13: every failure of a classification call reaches the caller as an
\* error, never as a returned WasteType, and the controller then sets the
\* transient error and UNKNOWN.
C13_FailuresReachCaller ==
    (SettledPastGuard /\ FailedCall)
    => /\ call.outcome = "thrown"
       /\ call.result = "none"
       /\ call.pc = "applied" =>
             /\ classificationError = ClassificationFailedMsg
             /\ classification = "UNKNOWN"

\* C14: when the video surface is absent or reports width 0 or height 0,
\* classifyWaste returns UNKNOWN without capturing a frame and without
\* sending a request, and the tick records UNKNOWN as a success.
C14_NotReadyIsUnknown ==
    ( /\ call.video \in {"absent", "zeroWidth", "zeroHeight"}
      /\ call.pc \notin {"idle", "guard"} )
    => /\ call.outcome = "returned"
       /\ call.result = "UNKNOWN"
       /\ ~call.captured
       /\ ~call.requested
       /\ call.pc = "applied" =>
             /\ classification = "UNKNOWN"
             /\ classificationError = Null

\* a tick ran on an element of height 0 while the failure banner was up:
\* UNKNOWN was recorded and the banner cleared
C14_Witness ==
    /\ call.video = "zeroHeight"
    /\ call.pc = "applied"
    /\ call.closureErr = ClassificationFailedMsg
    /\ classification = "UNKNOWN"
    /\ classificationError = Null

\* the message the catch branch of startCamera owes to a rejection reason
ExpectedCameraMsg(err) ==
    CASE err.isDOMException /\ err.name = "NotAllowedError" -> PermissionDeniedMsg
      [] err.isDOMException /\ err.name = "NotFoundError" -> NoCameraMsg
      [] OTHER -> GenericCameraMsg

\* C15: a failed permission request sets the camera error to the
\* permission-denied message for a NotAllowedError, to the no-camera
\* message for a NotFoundError and to the generic message for every other
\* reason, non-DOMException errors included.
C15_CameraErrorMessages ==
    [][ \A err \in MediaErrors :
          (mounted /\ lastOp' = "getUserMediaReject" /\ getUserMediaReject(err))
          => /\ error' = ExpectedCameraMsg(err)
             /\ error' \in {PermissionDeniedMsg, NoCameraMsg, GenericCameraMsg} ]_vars

\* a start attempt was refused permission: the banner names the permission
C15_Witness ==
    /\ lastOp = "getUserMediaReject"
    /\ mounted
    /\ ~isCameraActive
    /\ error = PermissionDeniedMsg

\* the acquired streams that have a live track
LiveStreams == { p[1] : p \in liveTracks }

\* C16: whenever the stream reference changes from a stream to another
\* stream or to null, or the component unmounts, every track of the stream
\* held before is stopped; so at most one acquired stream has live tracks
\* while the component is mounted.
C16_ReplacedStreamIsStopped ==
    /\ [][ ( /\ mounted
             /\ stream # NoStream
             /\ (stream' # stream \/ ~mounted') )
           => TracksOf(stream, liveTracks') = {} ]_vars
    /\ [](mounted => Cardinality(LiveStreams) <= 1)

\* a second start attempt succeeded: the stream held before it is stopped,
\* the new one is live
C16_Witness ==
    /\ mounted
    /\ lastOp = "getUserMediaResolve"
    /\ stream = 2
    /\ TracksOf(1, liveTracks) = {}
    /\ TracksOf(2, liveTracks) # {}

\* C17: on stop and on unmount the polling timer is cancelled before the
\* first track of the held stream is stopped, and no tick can fire while
\* the stream of its session has a stopped track.
C17_LoopHaltedBeforeRelease ==
    /\ timersAtRelease = {}
    /\ timers # {} => (stream # NoStream /\ TracksOf(stream, liveTracks) # {})

\* the component was unmounted while Active: timer gone, tracks stopped
C17_Witness ==
    /\ lastOp = "unmount"
    /\ isCameraActive
    /\ stream # NoStream
    /\ TracksOf(stream, liveTracks) = {}
    /\ timers = {}

\* C18: nothing guards a tick on an outstanding call: with a call in
\* flight the tick can issue another one, so two or more calls are in
\* flight at the same time.
C18_TickIssuesWhileBusy ==
    ( /\ timers # {}
      /\ videoRefAttached
      /\ Len(inflight) \in 1..(MaxInflight - 1) )
    => ENABLED (\E t \in timers : Tick(t, TRUE))

\* two calls are in flight at once
C18_Witness ==
    /\ mounted
    /\ isCameraActive
    /\ lastOp = "tick"
    /\ Len(inflight) >= 2

\* C19: the response of an earlier tick is never applied after the
\* response of a later tick has been applied.
C19_NoStaleResponse ==
    [][ ~ ( /\ mounted
            /\ isCameraActive
            /\ lastOp' \in {"classifyResolve", "classifyReject"}
            /\ \E i \in 1..overtaken, r \in OutcomeResponses :
                  classifyResolve(i, r) \/ classifyReject(i, r) ) ]_vars

\* C19, amended: the classification reflects the outcome of the call that
\* completed last, whichever tick issued it.
C19_LastCompletedWins ==
    (mounted /\ lastOutcome # "none") => classification = lastOutcome

\* the result of a later tick is on display while the call of an earlier
\* tick is still in flight
C19_Witness ==
    /\ mounted
    /\ isCameraActive
    /\ lastOp = "classifyResolve"
    /\ classification = "PLASTIC"
    /\ lastOutcome = "PLASTIC"
    /\ overtaken > 0

\* C20: while the component is mounted, isCameraActive implies that a
\* stream is held and that the controller has not stopped its tracks.
C20_ActiveHoldsLiveStream ==
    (mounted /\ isCameraActive)
    => (stream # NoStream /\ TracksOf(stream, liveTracks) # {})

\* a start attempt succeeded over a stream that a failed attempt had left
\* held: the session is active on the new stream
C20_Witness ==
    /\ mounted
    /\ isCameraActive
    /\ lastOp = "getUserMediaResolve"
    /\ error # Null
    /\ stream = 3
    /\ TracksOf(3, liveTracks) # {}

=============================================================================
